---- MODULE Spec2Model ----
(***************************************************************************)
(* Voucher validity, redemption and the usage ledger of the voucher        *)
(* backend (backend/apps/vouchers).  The database is the shared state;     *)
(* every request handler runs as a sequence of steps, one per database     *)
(* query, on a model instance it loaded earlier, so that handlers of       *)
(* concurrent requests interleave between their queries (no handler opens  *)
(* a transaction or takes a row lock).                                     *)
(***************************************************************************)
EXTENDS Integers, Sequences, FiniteSets, TLC

\* ---------------------------------------------------------------- bounds
NumProcs == 2         \* concurrent request handlers
NumVouchers == 2      \* voucher primary keys
MaxTime == 2          \* clock values 0..MaxTime
MaxLimit == 1         \* usage_limit values 0..MaxLimit (and None)
MaxUsages == 2        \* redemptions started over a run
MaxCents == 3         \* money amounts 0..MaxCents, in cents

Procs == 1..NumProcs
VoucherIds == 1..NumVouchers
Times == 0..MaxTime
Cents == 0..MaxCents

\* ---------------------------------------------------------------- domains
\* Python's None for the optional integer usage_limit
None == 0 - 1

\* "leave the field as it is" in an update payload
Keep == "Keep"

KeepInt == 0 - 2

\* the polymorphic types of a voucher (polymorphic_ctype.model)
VoucherTypes ==
  {"voucher", "percentagediscountvoucher", "fixedamountvoucher", "freeshippingvoucher"}

\* a null foreign key to a user (created_by)
Null == "null"

\* the fields of the subclasses on a plain Voucher: none of them is set
NoTerms ==
  [voucher_type |-> "voucher", discount_percentage |-> None, discount_amount |-> None,
   max_discount_amount |-> None, max_shipping_amount |-> None,
   min_purchase_amount |-> 0]

\* the absence of a row, and of a loaded instance
NoVoucher ==
  [code |-> "-", status |-> "ABSENT", valid_from |-> 0, valid_until |-> 0,
   usage_limit |-> None, usage_count |-> 0, created_by |-> Null] @@ NoTerms

NoInstance == NoVoucher

\* VoucherStatus (enums/status.py)
VoucherStatus == {"ACTIVE", "EXPIRED", "USED", "CANCELLED"}

\* the users of the test fixtures: an admin, a manager and a regular user
Users == {"admin", "manager", "user"}

\* the account a client may register, and every account of the model
Newcomer == "newcomer"

Accounts == Users \cup {Newcomer}

\* request.user of a request that carries no credentials
AnonymousUser == "anonymous"

\* UserRole (enums/role.py)
UserRole == {"ADMIN", "MANAGER", "USER", "GUEST"}

\* the absence of a row of the table users
NoUser == [role |-> "-", is_staff |-> FALSE]

\* Codes as a client may type them, and str.upper() on them
RawCodes == {"a", "A", "b"}

\* str.upper() that leaves the code as typed
upper_AsTyped(c) == c

upper(c) == IF c = "a" THEN "A" ELSE IF c = "b" THEN "B" ELSE c

Limits == {None} \cup (0..MaxLimit)

VARIABLES
  vouchers,   \* table vouchers: primary key -> row, or NoVoucher
  usages,     \* table voucher_usages: the rows in insertion order
  now,        \* timezone.now()
  pc,         \* per handler: the position in its request
  req,        \* per handler: the request it serves (user, pk, voucher_code)
  inst,       \* per handler: the Voucher instance it holds in memory
  response,   \* the last response sent to a client
  users       \* table users: account -> row (role, is_staff), or NoUser

vars == <<vouchers, usages, now, pc, req, inst, response, users>>

\* User.is_admin, User.is_manager and is_staff of the account u; the anonymous
\* user has none of them
is_admin(u) == u \in Accounts /\ users[u].role = "ADMIN"

is_manager(u) == u \in Accounts /\ users[u].role = "MANAGER"

is_staff(u) == u \in Accounts /\ users[u].is_staff

\* request.user.is_authenticated: the credentials name a stored account
is_authenticated(u) == u \in Accounts /\ users[u] # NoUser

NoRequest == [user |-> "user", pk |-> 1, code |-> "A"]

\* a response: the status and the cause, and of the body the voucher's id (0
\* when the body holds no voucher), its fields, is_valid and is_expired, and
\* calculated_discount; code, purchase_amount and shipping_amount are the code
\* and the amounts of the validate request it answers; user and endpoint are
\* the requester and the router prefix of a request on which the role
\* decides, results the primary keys of a voucher list, accounts the rows of
\* a user list
NoResponse ==
  [op |-> "none", http |-> 0, reason |-> "none",
   is_valid |-> FALSE, is_expired |-> FALSE,
   id |-> 0, voucher |-> NoVoucher, calculated_discount |-> 0,
   code |-> "-", purchase_amount |-> 0, shipping_amount |-> 0,
   user |-> "-", endpoint |-> "-", results |-> {}, accounts |-> {}]

\* ---------------------------------------------------------------- Voucher
\* Python truthiness of an optional integer: None and 0 are falsy
Truthy(n) == n # None /\ n # 0

\* is_valid with the upper bound of the window excluded
is_valid_UntilExclusive(v, t) ==
  /\ v.status = "ACTIVE"
  /\ v.valid_from <= t /\ t < v.valid_until
  /\ (v.usage_limit = None \/ v.usage_count < v.usage_limit)

\* is_valid without the usage limit
is_valid_IgnoresLimit(v, t) ==
  /\ v.status = "ACTIVE"
  /\ v.valid_from <= t /\ t <= v.valid_until

\* Voucher.is_valid at time t
is_valid(v, t) ==
  /\ v.status = "ACTIVE"
  /\ v.valid_from <= t /\ t <= v.valid_until
  /\ (v.usage_limit = None \/ v.usage_count < v.usage_limit)

\* is_expired that holds of ACTIVE vouchers only
is_expired_WhenActive(v, t) == v.status = "ACTIVE" /\ t > v.valid_until

\* Voucher.is_expired at time t
is_expired(v, t) == t > v.valid_until

\* increment_usage that never marks the voucher USED
increment_usage_KeepsStatus(v) == [v EXCEPT !.usage_count = v.usage_count + 1]

\* Voucher.increment_usage on an in-memory instance: the instance it saves
increment_usage(v) ==
  LET c == v.usage_count + 1
  IN [v EXCEPT !.usage_count = c,
               !.status = IF Truthy(v.usage_limit) /\ c >= v.usage_limit
                          THEN "USED" ELSE @]

\* save(update_fields=['usage_count', 'status', 'updated_at']) of instance v
\* onto the stored row
SaveUsageFields(row, v) ==
  [row EXCEPT !.usage_count = v.usage_count, !.status = v.status]

\* ---------------------------------------------------------------- discounts
\* Money is counted in cents (two decimal places) and discount_percentage in
\* hundredths of a percent (two decimal places), so that the Decimal product
\* purchase_amount * (discount_percentage / Decimal('100')) is the exact
\* fraction n / PercentScale of a cent with n = purchase_amount * percentage.
Hundred == 100

PercentScale == Hundred * Hundred

Min(a, b) == IF a <= b THEN a ELSE b

\* quantize that rounds half up
quantize_HalfUp(n, d) == (2 * n + d) \div (2 * d)

\* Decimal.quantize(Decimal('0.01')) of n / d cents (n >= 0, d > 0) in the
\* default context, whose rounding is ROUND_HALF_EVEN
quantize(n, d) ==
  LET q == n \div d
      r == n % d
  IN IF 2 * r < d THEN q
     ELSE IF 2 * r > d THEN q + 1
     ELSE IF q % 2 = 0 THEN q ELSE q + 1

\* calculate_discount of a percentage voucher that ignores its cap
PercentageDiscountVoucher_calculate_discount_NoCap(v, purchase_amount) ==
  IF purchase_amount < v.min_purchase_amount THEN 0
  ELSE quantize(purchase_amount * v.discount_percentage, PercentScale)

\* PercentageDiscountVoucher.calculate_discount(purchase_amount): the cap is
\* applied to the exact product, the result is quantized
PercentageDiscountVoucher_calculate_discount(v, purchase_amount) ==
  IF purchase_amount < v.min_purchase_amount THEN 0
  ELSE LET n == purchase_amount * v.discount_percentage
       IN IF Truthy(v.max_discount_amount)
               /\ v.max_discount_amount * PercentScale <= n
            THEN quantize(v.max_discount_amount * PercentScale, PercentScale)
          ELSE quantize(n, PercentScale)

\* calculate_discount of a fixed-amount voucher that ignores the purchase
FixedAmountVoucher_calculate_discount_Uncapped(v, purchase_amount) ==
  IF purchase_amount < v.min_purchase_amount THEN 0 ELSE v.discount_amount

\* FixedAmountVoucher.calculate_discount(purchase_amount)
FixedAmountVoucher_calculate_discount(v, purchase_amount) ==
  IF purchase_amount < v.min_purchase_amount THEN 0
  ELSE Min(v.discount_amount, purchase_amount)

\* calculate_discount of a free-shipping voucher that ignores its cap
FreeShippingVoucher_calculate_discount_NoCap(v, purchase_amount, shipping_amount) ==
  IF purchase_amount < v.min_purchase_amount THEN 0 ELSE shipping_amount

\* FreeShippingVoucher.calculate_discount(purchase_amount, shipping_amount)
FreeShippingVoucher_calculate_discount(v, purchase_amount, shipping_amount) ==
  IF purchase_amount < v.min_purchase_amount THEN 0
  ELSE IF Truthy(v.max_shipping_amount)
    THEN Min(shipping_amount, v.max_shipping_amount)
  ELSE shipping_amount

\* the discount VoucherValidateSerializer.validate calculates for a valid
\* voucher, by its polymorphic type; a plain Voucher gives none
ValidateDiscount(v, purchase_amount, shipping_amount) ==
  IF v.voucher_type = "percentagediscountvoucher"
    THEN IF purchase_amount >= v.min_purchase_amount
           THEN PercentageDiscountVoucher_calculate_discount(v, purchase_amount)
         ELSE 0
  ELSE IF v.voucher_type = "fixedamountvoucher"
    THEN IF purchase_amount >= v.min_purchase_amount
           THEN FixedAmountVoucher_calculate_discount(v, purchase_amount)
         ELSE 0
  ELSE IF v.voucher_type = "freeshippingvoucher"
    THEN IF purchase_amount >= v.min_purchase_amount
           THEN FreeShippingVoucher_calculate_discount(v, purchase_amount, shipping_amount)
         ELSE 0
  ELSE 0

\* discount_percentage values the field accepts (0.01 .. 100.00), sampled
Percentages == {1, 2500, 5000, 9999, PercentScale}

\* optional positive caps (max_discount_amount, max_shipping_amount)
Caps == {None} \cup (1..MaxCents)

\* the subclass fields a serializer accepts, per polymorphic type
PercentageTerms ==
  {[NoTerms EXCEPT !.voucher_type = "percentagediscountvoucher",
                   !.discount_percentage = pct, !.max_discount_amount = cap,
                   !.min_purchase_amount = m] :
     pct \in Percentages, cap \in Caps, m \in Cents}

FixedTerms ==
  {[NoTerms EXCEPT !.voucher_type = "fixedamountvoucher",
                   !.discount_amount = a, !.min_purchase_amount = m] :
     a \in 1..MaxCents, m \in Cents}

FreeShippingTerms ==
  {[NoTerms EXCEPT !.voucher_type = "freeshippingvoucher",
                   !.max_shipping_amount = cap, !.min_purchase_amount = m] :
     cap \in Caps, m \in Cents}

\* Voucher.objects.get(code=c): the primary key holding code c, or none
PksByCode(c) == {k \in VoucherIds : vouchers[k] # NoVoucher /\ vouchers[k].code = c}

\* VoucherViewSet.get_queryset: the rows user u may address
Visible(u, k) ==
  /\ vouchers[k] # NoVoucher
  /\ (is_admin(u) \/ is_manager(u) \/ vouchers[k].status = "ACTIVE")

\* the cause reported by VoucherUsageCreateSerializer.validate_voucher_code
\* for a voucher that is not valid
RedeemReason(v, t) ==
  IF v.status # "ACTIVE" THEN "inactive"
  ELSE IF is_expired(v, t) THEN "expired"
  ELSE IF Truthy(v.usage_limit) /\ v.usage_count >= v.usage_limit THEN "usage_limit"
  ELSE "generic"

\* the cause reported by VoucherValidateSerializer.validate
ValidateReason(v, t) ==
  IF v.status # "ACTIVE" THEN "inactive"
  ELSE IF is_expired(v, t) THEN "expired"
  ELSE IF Truthy(v.usage_limit) /\ v.usage_count >= v.usage_limit THEN "usage_limit"
  ELSE "generic"

Respond(op, http, reason, v) ==
  [NoResponse EXCEPT
     !.op = op, !.http = http, !.reason = reason,
     !.is_valid = IF v = NoVoucher THEN FALSE ELSE is_valid(v, now),
     !.is_expired = IF v = NoVoucher THEN FALSE ELSE is_expired(v, now),
     !.voucher = v]

\* ---------------------------------------------------------------- Init
\* the accounts of the fixtures (factories/user.py): the admin is staff, and
\* nobody has registered
FixtureUsers ==
  [a \in Accounts |->
     IF a = "admin" THEN [role |-> "ADMIN", is_staff |-> TRUE]
     ELSE IF a = "manager" THEN [role |-> "MANAGER", is_staff |-> FALSE]
     ELSE IF a = "user" THEN [role |-> "USER", is_staff |-> FALSE]
     ELSE NoUser]

Init ==
  /\ vouchers = [k \in VoucherIds |-> NoVoucher]
  /\ usages = <<>>
  /\ now = 0
  /\ pc = [p \in Procs |-> "idle"]
  /\ req = [p \in Procs |-> NoRequest]
  /\ inst = [p \in Procs |-> NoInstance]
  /\ response = NoResponse
  /\ users = FixtureUsers

\* the clock advances
Tick ==
  /\ now < MaxTime
  /\ now' = now + 1
  /\ UNCHANGED <<users, vouchers, usages, pc, req, inst, response>>

Finish(p) ==
  /\ pc' = [pc EXCEPT ![p] = "idle"]
  /\ req' = [req EXCEPT ![p] = NoRequest]
  /\ inst' = [inst EXCEPT ![p] = NoInstance]


Reject(p, op, http, reason) ==
  /\ response' = Respond(op, http, reason, NoVoucher)
  /\ Finish(p)
  /\ UNCHANGED <<users, vouchers, usages, now>>

\* ---------------------------------------------------------------- vouchers
\* VoucherSerializer.validate_code on create: the upper-cased code is free
CodeFree(c) == PksByCode(upper(c)) = {}

\* VoucherSerializer.validate: the dates the serializer accepts; valid_from
\* has a model default and may be absent from a create payload (KeepInt), and
\* then nothing is compared
DatesOk(vf, vu) == vf = KeepInt \/ ~(vu <= vf)

\* POST /vouchers/ with code c, dates vf, vu and the subclass fields tm:
\* VoucherViewSet.create with the serializer of tm.voucher_type, each of which
\* inherits the validation of VoucherSerializer. Validation answers first
\* (400), then perform_create checks the role (403), then the row is inserted
\* with usage_count 0 under the next free primary key; status and usage_limit
\* are any the fields accept. The request is served with no other query
\* between its validation and its insert.
CreateVoucher(p, u, c, vf, vu, tm) ==
  /\ pc[p] = "idle"
  /\ IF ~CodeFree(c) \/ ~DatesOk(vf, vu)
       THEN Reject(p, "create", 400, "invalid")
     ELSE IF ~(is_admin(u) \/ is_manager(u))
       THEN Reject(p, "create", 403, "forbidden")
     ELSE \E k \in VoucherIds, st \in VoucherStatus, lim \in Limits :
            /\ vouchers[k] = NoVoucher
            /\ \A j \in VoucherIds : j < k => vouchers[j] # NoVoucher
            /\ vouchers' = [vouchers EXCEPT ![k] =
                 [code |-> upper(c), status |-> st,
                  valid_from |-> IF vf = KeepInt THEN now ELSE vf,
                  valid_until |-> vu,
                  usage_limit |-> lim, usage_count |-> 0, created_by |-> u] @@ tm]
            /\ response' = [Respond("create", 201, "none", NoVoucher) EXCEPT !.id = k]
            /\ Finish(p)
            /\ UNCHANGED <<users, usages, now>>

\* GET /vouchers/{pk}/: get_object on the role's queryset, then the
\* VoucherSerializer fields is_valid and is_expired of the row
Retrieve(p, u, k) ==
  /\ pc[p] = "idle"
  /\ IF ~Visible(u, k)
       THEN Reject(p, "retrieve", 404, "not_found")
     ELSE /\ response' = [Respond("retrieve", 200, "none", vouchers[k]) EXCEPT !.id = k]
          /\ Finish(p)
          /\ UNCHANGED <<users, vouchers, usages, now>>

\* PUT/PATCH /vouchers/{pk}/, first query: get_object loads the instance
UpdateLoad(p, u, k) ==
  /\ pc[p] = "idle"
  /\ IF ~Visible(u, k)
       THEN Reject(p, "update", 404, "not_found")
     ELSE /\ pc' = [pc EXCEPT ![p] = "upd_got"]
          /\ req' = [req EXCEPT ![p] = [user |-> u, pk |-> k, code |-> vouchers[k].code]]
          /\ inst' = [inst EXCEPT ![p] = vouchers[k]]
          /\ UNCHANGED <<users, vouchers, usages, now, response>>

\* created_by of the instance v names a user that is no longer stored: the
\* foreign key is a database constraint, and a write of v raises
\* IntegrityError
CreatorGone(v) == v.created_by # Null /\ users[v.created_by] = NoUser

\* VoucherSerializer.validate_code on update: a changed code must be free
UpdateCodeOk(v, c) == c = Keep \/ upper(c) = v.code \/ CodeFree(c)

\* ModelSerializer.update: the payload's fields set on the instance v
Patched(v, d) ==
  [v EXCEPT
     !.code = IF d.code = Keep THEN v.code ELSE upper(d.code),
     !.status = IF d.status = Keep THEN v.status ELSE d.status,
     !.valid_from = IF d.valid_from = KeepInt THEN v.valid_from ELSE d.valid_from,
     !.valid_until = IF d.valid_until = KeepInt THEN v.valid_until ELSE d.valid_until,
     !.usage_limit = IF d.usage_limit = KeepInt THEN v.usage_limit ELSE d.usage_limit]

\* PUT/PATCH with payload d, the rest: the serializer validates the payload
\* against the loaded instance (400), perform_update checks the role (403),
\* and ModelSerializer.update sets the payload's fields on the instance and
\* saves every field of it; usage_count is read-only, so the instance keeps the
\* value it loaded. The code column is unique: a save that would store the
\* code of another row raises IntegrityError (500) and writes nothing.
UpdateSave(p, d) ==
  /\ pc[p] = "upd_got"
  /\ LET w == Patched(inst[p], d)
     IN IF ~UpdateCodeOk(inst[p], d.code) \/ ~DatesOk(w.valid_from, w.valid_until)
          THEN Reject(p, "update", 400, "invalid")
        ELSE IF ~(is_admin(req[p].user) \/ is_manager(req[p].user))
          THEN Reject(p, "update", 403, "forbidden")
        ELSE IF PksByCode(w.code) \ {req[p].pk} # {} \/ CreatorGone(w)
          THEN Reject(p, "update", 500, "integrity")
        ELSE /\ vouchers' = [vouchers EXCEPT ![req[p].pk] = w]
             /\ response' = Respond("update", 200, "none", NoVoucher)
             /\ Finish(p)
             /\ UNCHANGED <<users, usages, now>>

\* ---------------------------------------------------------------- create
\* Creation query by query: the serializer's validation reads the table, the
\* insert comes later, and other handlers' queries fall in between.
Stored == {k \in VoucherIds : vouchers[k] # NoVoucher}

Creating == {p \in Procs : pc[p] = "crt_valid"}

\* a primary key is left for one more creation
RoomToCreate == Cardinality(Stored) + Cardinality(Creating) < NumVouchers

\* POST /vouchers/ as in CreateVoucher, up to the end of validation and of the
\* role check: the handler then holds the unsaved instance, with status st
\* and usage_limit lim of the payload
CreateValidated(p, u, c, vf, vu, st, lim, tm) ==
  /\ pc[p] = "idle"
  /\ RoomToCreate
  /\ IF ~CodeFree(c) \/ ~DatesOk(vf, vu)
       THEN Reject(p, "create", 400, "invalid")
     ELSE IF ~(is_admin(u) \/ is_manager(u))
       THEN Reject(p, "create", 403, "forbidden")
     ELSE /\ pc' = [pc EXCEPT ![p] = "crt_valid"]
          /\ req' = [req EXCEPT ![p] = [user |-> u, pk |-> 1, code |-> upper(c)]]
          /\ inst' = [inst EXCEPT ![p] =
                 [code |-> upper(c), status |-> st,
                  valid_from |-> vf, valid_until |-> vu,
                  usage_limit |-> lim, usage_count |-> 0, created_by |-> u] @@ tm]
          /\ UNCHANGED <<users, vouchers, usages, now, response>>

\* DiscountType values VoucherCreateSerializer accepts
DiscountTypes == {"FIXED_AMOUNT", "PERCENTAGE"}

\* VoucherCreateSerializer.validate_code: the upper-cased code is looked up
\* among the fixed-amount and the percentage vouchers only
UnifiedCodeFree(c) ==
  \A k \in PksByCode(upper(c)) :
    vouchers[k].voucher_type \notin {"fixedamountvoucher", "percentagediscountvoucher"}

\* timezone.timedelta(days=36500): beyond every clock value of the model
Century == MaxTime + 1

\* VoucherCreateSerializer.validate on valid_from, valid_until (None when
\* absent or null) and valid_indefinitely: whether the payload is accepted,
\* and the dates of the validated data
UnifiedDates(vf, vu, vi) ==
  LET valid_indefinitely == vi \/ (vf = None /\ vu = None)
  IN IF ~valid_indefinitely
       THEN IF vf = None \/ vu = None
              THEN [ok |-> FALSE, valid_from |-> vf, valid_until |-> vu]
            ELSE [ok |-> ~(vu <= vf), valid_from |-> vf, valid_until |-> vu]
     ELSE [ok |-> TRUE,
           valid_from |-> IF vf = None THEN now ELSE vf,
           valid_until |-> IF vu = None THEN now + Century ELSE vu]

\* VoucherCreateSerializer.create: the subclass and its fields by discount_type
UnifiedTerms(ty, a) ==
  IF ty = "FIXED_AMOUNT"
    THEN [NoTerms EXCEPT !.voucher_type = "fixedamountvoucher", !.discount_amount = a]
  ELSE [NoTerms EXCEPT !.voucher_type = "percentagediscountvoucher",
                       !.discount_percentage = a]

\* VoucherCreateSerializer(data).is_valid() with code c, discount_type ty,
\* discount_amount a, the dates and valid_indefinitely; status and max_uses
\* are left to their defaults (ACTIVE, no limit). The handler then holds the
\* instance create() will insert.
UnifiedValidated(p, c, ty, a, vf, vu, vi) ==
  /\ pc[p] = "idle"
  /\ RoomToCreate
  /\ LET dates == UnifiedDates(vf, vu, vi)
     IN IF \/ ~UnifiedCodeFree(c)
           \/ a <= 0
           \/ (ty = "PERCENTAGE" /\ a > PercentScale)
           \/ ~dates.ok
          THEN Reject(p, "create", 400, "invalid")
        ELSE /\ pc' = [pc EXCEPT ![p] = "crt_valid"]
             /\ req' = [req EXCEPT ![p] = [user |-> "admin", pk |-> 1, code |-> upper(c)]]
             /\ inst' = [inst EXCEPT ![p] =
                    [code |-> upper(c), status |-> "ACTIVE",
                     valid_from |-> dates.valid_from,
                     valid_until |-> dates.valid_until,
                     usage_limit |-> None, usage_count |-> 0, created_by |-> Null] @@ UnifiedTerms(ty, a)]
             /\ UNCHANGED <<users, vouchers, usages, now, response>>

\* an insert that the table accepts whatever the code
InsertVoucher_NoUnique(p) ==
  /\ pc[p] = "crt_valid"
  /\ \E k \in VoucherIds :
       /\ vouchers[k] = NoVoucher
       /\ \A j \in VoucherIds : j < k => vouchers[j] # NoVoucher
       /\ vouchers' = [vouchers EXCEPT ![k] =
            IF inst[p].valid_from = KeepInt
              THEN [inst[p] EXCEPT !.valid_from = now] ELSE inst[p]]
       /\ response' = [Respond("create", 201, "none", NoVoucher) EXCEPT !.id = k]
  /\ Finish(p)
  /\ UNCHANGED <<users, usages, now>>

\* objects.create of the validated instance: the insert. An absent valid_from
\* takes the model default timezone.now; the code column is unique, and the
\* insert of a stored code raises IntegrityError (500) and stores nothing.
InsertVoucher(p) ==
  /\ pc[p] = "crt_valid"
  /\ IF PksByCode(inst[p].code) # {} \/ CreatorGone(inst[p])
       THEN Reject(p, "create", 500, "integrity")
     ELSE /\ \E k \in VoucherIds :
               /\ vouchers[k] = NoVoucher
               /\ \A j \in VoucherIds : j < k => vouchers[j] # NoVoucher
               /\ vouchers' = [vouchers EXCEPT ![k] =
                    IF inst[p].valid_from = KeepInt
                      THEN [inst[p] EXCEPT !.valid_from = now] ELSE inst[p]]
               /\ response' = [Respond("create", 201, "none", NoVoucher) EXCEPT !.id = k]
          /\ Finish(p)
          /\ UNCHANGED <<users, usages, now>>

\* ---------------------------------------------------------------- validate
\* validate that counts the validated voucher as used
Validate_CountsUsage(p, c, pa, sa) ==
  /\ pc[p] = "idle"
  /\ LET ks == PksByCode(upper(c))
     IN IF ks = {}
          THEN Reject(p, "validate", 400, "not_found")
        ELSE LET k == CHOOSE j \in ks : TRUE
                 v == vouchers[k]
             IN IF ~is_valid(v, now)
                  THEN Reject(p, "validate", 400, ValidateReason(v, now))
                ELSE /\ response' =
                          [Respond("validate", 200, "none", v) EXCEPT
                             !.id = k,
                             !.calculated_discount = ValidateDiscount(v, pa, sa),
                             !.code = c,
                             !.purchase_amount = pa, !.shipping_amount = sa]
                     /\ vouchers' = [vouchers EXCEPT ![k] = increment_usage(v)]
                     /\ Finish(p)
                     /\ UNCHANGED <<users, usages, now>>

\* POST /vouchers/validate/ with code c and the amounts pa, sa:
\* VoucherValidateSerializer.validate looks the upper-cased code up, rejects a
\* voucher that is not valid with its cause, and otherwise answers valid with
\* the voucher and the discount calculated for the amounts; nothing is written.
Validate(p, c, pa, sa) ==
  /\ pc[p] = "idle"
  /\ LET ks == PksByCode(upper(c))
     IN IF ks = {}
          THEN Reject(p, "validate", 400, "not_found")
        ELSE LET k == CHOOSE j \in ks : TRUE
                 v == vouchers[k]
             IN IF ~is_valid(v, now)
                  THEN Reject(p, "validate", 400, ValidateReason(v, now))
                ELSE /\ response' =
                          [Respond("validate", 200, "none", v) EXCEPT
                             !.id = k,
                             !.calculated_discount = ValidateDiscount(v, pa, sa),
                             !.code = c,
                             !.purchase_amount = pa, !.shipping_amount = sa]
                     /\ Finish(p)
                     /\ UNCHANGED <<users, vouchers, usages, now>>

\* ---------------------------------------------------------------- redeem
\* redemptions that have started and not yet inserted their usage row
Pending == {p \in Procs : pc[p] \in {"got", "validated", "loaded"}}

\* POST /vouchers/{pk}/use_voucher/, first query: get_object, whose code
\* becomes the voucher_code of the serializer's data
UseVoucher(p, u, k) ==
  /\ pc[p] = "idle"
  /\ Len(usages) + Cardinality(Pending) < MaxUsages
  /\ IF ~Visible(u, k)
       THEN Reject(p, "use_voucher", 404, "not_found")
     ELSE /\ pc' = [pc EXCEPT ![p] = "got"]
          /\ req' = [req EXCEPT ![p] = [user |-> u, pk |-> k, code |-> vouchers[k].code]]
          /\ UNCHANGED <<users, vouchers, usages, now, inst, response>>

\* serializer.is_valid: VoucherUsageCreateSerializer.validate_voucher_code
\* looks the code up again and rejects a voucher that is not valid
ValidateVoucherCode(p) ==
  /\ pc[p] = "got"
  /\ LET ks == PksByCode(upper(req[p].code))
     IN IF ks = {}
          THEN Reject(p, "use_voucher", 400, "not_found")
        ELSE LET v == vouchers[CHOOSE k \in ks : TRUE]
             IN IF ~is_valid(v, now)
                  THEN Reject(p, "use_voucher", 400, RedeemReason(v, now))
                ELSE /\ pc' = [pc EXCEPT ![p] = "validated"]
                     /\ UNCHANGED <<users, vouchers, usages, now, req, inst, response>>

\* serializer.save, first query of create: Voucher.objects.get loads the
\* instance; a code that no longer resolves raises DoesNotExist (500)
CreateLoad(p) ==
  /\ pc[p] = "validated"
  /\ LET ks == PksByCode(upper(req[p].code))
     IN IF ks = {}
          THEN Reject(p, "use_voucher", 500, "error")
        ELSE LET k == CHOOSE j \in ks : TRUE
             IN /\ pc' = [pc EXCEPT ![p] = "loaded"]
                /\ req' = [req EXCEPT ![p].pk = k]
                /\ inst' = [inst EXCEPT ![p] = vouchers[k]]
                /\ UNCHANGED <<users, vouchers, usages, now, response>>

\* a create that inserts the usage row twice
CreateUsage_Twice(p) ==
  /\ pc[p] = "loaded"
  /\ IF vouchers[req[p].pk] = NoVoucher \/ ~is_authenticated(req[p].user)
       THEN Reject(p, "use_voucher", 500, "integrity")
     ELSE /\ usages' = Append(Append(usages, [voucher |-> req[p].pk, user |-> req[p].user]),
                              [voucher |-> req[p].pk, user |-> req[p].user])
          /\ pc' = [pc EXCEPT ![p] = "created"]
          /\ UNCHANGED <<users, vouchers, now, req, inst, response>>

\* create, second query: VoucherUsage.objects.create inserts the usage row;
\* its foreign keys voucher and user are database constraints, and the insert
\* of a row whose voucher or user was deleted since the request loaded them
\* raises IntegrityError (500)
CreateUsage(p) ==
  /\ pc[p] = "loaded"
  /\ IF vouchers[req[p].pk] = NoVoucher \/ ~is_authenticated(req[p].user)
       THEN Reject(p, "use_voucher", 500, "integrity")
     ELSE /\ usages' = Append(usages, [voucher |-> req[p].pk, user |-> req[p].user])
          /\ pc' = [pc EXCEPT ![p] = "created"]
          /\ UNCHANGED <<users, vouchers, now, req, inst, response>>

\* create, third query: voucher.increment_usage() on the loaded instance
\* saves its usage_count and status; the view answers 201. A save with
\* update_fields that finds no row (the voucher was deleted) raises
\* DatabaseError (500).
IncrementUsage(p) ==
  /\ pc[p] = "created"
  /\ IF vouchers[req[p].pk] = NoVoucher
       THEN Reject(p, "use_voucher", 500, "error")
     ELSE /\ LET v == increment_usage(inst[p])
             IN /\ vouchers' = [vouchers EXCEPT ![req[p].pk] = SaveUsageFields(@, v)]
                /\ response' = Respond("use_voucher", 201, "none", NoVoucher)
          /\ Finish(p)
          /\ UNCHANGED <<users, usages, now>>

\* create runs in autocommit with no transaction around its two writes: when
\* the save of increment_usage raises, the usage row stays
SaveFails(p) ==
  /\ pc[p] = "created"
  /\ Reject(p, "use_voucher", 500, "error")

\* ---------------------------------------------------------------- calculate
\* calculate_discount called on the instance handler p holds in memory; the
\* call returns the discount and writes nothing
Calculated(v, pa, sa, d) ==
  [NoResponse EXCEPT !.op = "calculate_discount", !.voucher = v,
                     !.calculated_discount = d,
                     !.purchase_amount = pa, !.shipping_amount = sa]

CalculatePercentage(p, pa) ==
  /\ inst[p].voucher_type = "percentagediscountvoucher"
  /\ response' = Calculated(inst[p], pa, 0,
                    PercentageDiscountVoucher_calculate_discount(inst[p], pa))
  /\ UNCHANGED <<users, vouchers, usages, now, pc, req, inst>>

CalculateFixed(p, pa) ==
  /\ inst[p].voucher_type = "fixedamountvoucher"
  /\ response' = Calculated(inst[p], pa, 0,
                    FixedAmountVoucher_calculate_discount(inst[p], pa))
  /\ UNCHANGED <<users, vouchers, usages, now, pc, req, inst>>

CalculateFreeShipping(p, pa, sa) ==
  /\ inst[p].voucher_type = "freeshippingvoucher"
  /\ response' = Calculated(inst[p], pa, sa,
                    FreeShippingVoucher_calculate_discount(inst[p], pa, sa))
  /\ UNCHANGED <<users, vouchers, usages, now, pc, req, inst>>

\* calculate_discount on the instances of the handlers P with the amounts A
Calculates(P, A) ==
  \/ \E p \in P, pa \in A : CalculatePercentage(p, pa)
  \/ \E p \in P, pa \in A : CalculateFixed(p, pa)
  \/ \E p \in P, pa \in A, sa \in A : CalculateFreeShipping(p, pa, sa)

\* unsaved instances of the three subclasses with the subclass fields K
Instances(K) ==
  {[code |-> "A", status |-> "ACTIVE", valid_from |-> 0, valid_until |-> MaxTime,
    usage_limit |-> None, usage_count |-> 0, created_by |-> "admin"] @@ tm : tm \in K}

\* ---------------------------------------------------------------- endpoints
\* the router prefixes of the voucher viewsets (urls.py), and the model each
\* type-specific viewset serves
TypedEndpoints == {"percentage-vouchers", "fixed-amount-vouchers", "free-shipping-vouchers"}

Endpoints == {"vouchers"} \cup TypedEndpoints

ModelOf(e) ==
  IF e = "percentage-vouchers" THEN "percentagediscountvoucher"
  ELSE IF e = "fixed-amount-vouchers" THEN "fixedamountvoucher"
  ELSE "freeshippingvoucher"

\* get_queryset of the viewset at endpoint e for requester u: VoucherViewSet
\* filters by the role; a type-specific viewset returns every row of its model
InQueryset(e, u, k) ==
  IF e = "vouchers"
    THEN is_authenticated(u) /\ Visible(u, k)
    ELSE vouchers[k] # NoVoucher /\ vouchers[k].voucher_type = ModelOf(e)

\* a response to requester u at endpoint e
RespondTo(op, http, reason, u, e) ==
  [Respond(op, http, reason, NoVoucher) EXCEPT !.user = u, !.endpoint = e]

\* a request of u at endpoint e that ends with an error and writes nothing
Deny(p, op, http, reason, u, e) ==
  /\ response' = RespondTo(op, http, reason, u, e)
  /\ Finish(p)
  /\ UNCHANGED <<users, vouchers, usages, now>>

\* GET /<e>/: IsAuthenticated, then the rows of get_queryset
ListVouchers(p, u, e) ==
  /\ pc[p] = "idle"
  /\ IF ~is_authenticated(u)
       THEN Deny(p, "list", 401, "unauthenticated", u, e)
     ELSE /\ response' = [RespondTo("list", 200, "none", u, e) EXCEPT
                            !.results = {k \in VoucherIds : InQueryset(e, u, k)}]
          /\ Finish(p)
          /\ UNCHANGED <<users, vouchers, usages, now>>

\* GET /<e>/{pk}/: IsAuthenticated, then get_object on get_queryset
RetrieveVoucher(p, u, e, k) ==
  /\ pc[p] = "idle"
  /\ IF ~is_authenticated(u)
       THEN Deny(p, "retrieve", 401, "unauthenticated", u, e)
     ELSE IF ~InQueryset(e, u, k)
       THEN Deny(p, "retrieve", 404, "not_found", u, e)
     ELSE /\ response' = [RespondTo("retrieve", 200, "none", u, e) EXCEPT
                            !.id = k, !.voucher = vouchers[k],
                            !.is_valid = is_valid(vouchers[k], now),
                            !.is_expired = is_expired(vouchers[k], now)]
          /\ Finish(p)
          /\ UNCHANGED <<users, vouchers, usages, now>>

\* POST /<e>/ of a type-specific viewset, up to the end of validation and of
\* the role check of perform_create: the serializer of the viewset's model
\* validates as VoucherSerializer does, and the instance is of that model
TypedCreateValidated(p, u, e, c, vf, vu, st, lim, tm) ==
  /\ tm.voucher_type = ModelOf(e)
  /\ CreateValidated(p, u, c, vf, vu, st, lim, tm)

\* PUT/PATCH /<e>/{pk}/ of a type-specific viewset, first query: get_object
\* on the viewset's queryset
TypedUpdateLoad(p, u, e, k) ==
  /\ pc[p] = "idle"
  /\ IF ~InQueryset(e, u, k)
       THEN Deny(p, "update", 404, "not_found", u, e)
     ELSE /\ pc' = [pc EXCEPT ![p] = "tupd_got"]
          /\ req' = [req EXCEPT ![p] = [user |-> u, pk |-> k, code |-> vouchers[k].code]]
          /\ inst' = [inst EXCEPT ![p] = vouchers[k]]
          /\ UNCHANGED <<users, vouchers, usages, now, response>>

\* the rest of it: the serializer validates the payload (400) and
\* ModelSerializer.update saves the instance; the type-specific viewsets
\* define no perform_update, and UpdateModelMixin.perform_update only saves
TypedUpdateSave(p, d) ==
  /\ pc[p] = "tupd_got"
  /\ LET w == Patched(inst[p], d)
         u == req[p].user
         e == CHOOSE x \in TypedEndpoints : ModelOf(x) = inst[p].voucher_type
     IN IF ~UpdateCodeOk(inst[p], d.code) \/ ~DatesOk(w.valid_from, w.valid_until)
          THEN Deny(p, "update", 400, "invalid", u, e)
        ELSE IF PksByCode(w.code) \ {req[p].pk} # {} \/ CreatorGone(w)
          THEN Deny(p, "update", 500, "integrity", u, e)
        ELSE /\ vouchers' = [vouchers EXCEPT ![req[p].pk] = w]
             /\ response' = RespondTo("update", 200, "none", u, e)
             /\ Finish(p)
             /\ UNCHANGED <<users, usages, now>>

\* the rows of table voucher_usages left when the rows that reference voucher
\* k are deleted with it (on_delete=CASCADE), and the same for user a
WithoutVoucher(k) == SelectSeq(usages, LAMBDA r : r.voucher # k)

WithoutUser(a) == SelectSeq(usages, LAMBDA r : r.user # a)

\* a delete that leaves the usage rows of the voucher in the table
DestroyVoucher_KeepsUsages(p, u, e, k) ==
  /\ pc[p] = "idle"
  /\ IF ~is_authenticated(u)
       THEN Deny(p, "destroy", 401, "unauthenticated", u, e)
     ELSE IF ~is_staff(u)
       THEN Deny(p, "destroy", 403, "forbidden", u, e)
     ELSE IF ~InQueryset(e, u, k)
       THEN Deny(p, "destroy", 404, "not_found", u, e)
     ELSE /\ vouchers' = [vouchers EXCEPT ![k] = NoVoucher]
          /\ response' = [RespondTo("destroy", 204, "none", u, e) EXCEPT !.id = k]
          /\ Finish(p)
          /\ UNCHANGED <<users, usages, now>>

\* DELETE /<e>/{pk}/: the permission IsAdminUser admits the requesters with
\* is_staff (401 without credentials, 403 otherwise), get_object looks the
\* row up in get_queryset, and instance.delete() removes the row and, in the
\* same transaction, the usage rows that reference it
DestroyVoucher(p, u, e, k) ==
  /\ pc[p] = "idle"
  /\ IF ~is_authenticated(u)
       THEN Deny(p, "destroy", 401, "unauthenticated", u, e)
     ELSE IF ~is_staff(u)
       THEN Deny(p, "destroy", 403, "forbidden", u, e)
     ELSE IF ~InQueryset(e, u, k)
       THEN Deny(p, "destroy", 404, "not_found", u, e)
     ELSE /\ vouchers' = [vouchers EXCEPT ![k] = NoVoucher]
          /\ usages' = WithoutVoucher(k)
          /\ response' = [RespondTo("destroy", 204, "none", u, e) EXCEPT !.id = k]
          /\ Finish(p)
          /\ UNCHANGED <<users, now>>

\* ---------------------------------------------------------------- users
\* the rows of UserViewSet.get_queryset for requester u: every row for an
\* admin; for another authenticated user the active rows and their own
\* (every account of the model is active); none for an anonymous one
UserQueryset(u) ==
  IF is_authenticated(u) THEN {a \in Accounts : users[a] # NoUser} ELSE {}

\* GET /users/: the permission of the list action is IsAuthenticated
ListUsers(p, u) ==
  /\ pc[p] = "idle"
  /\ IF ~is_authenticated(u)
       THEN Deny(p, "list_users", 401, "unauthenticated", u, "users")
     ELSE /\ response' = [RespondTo("list_users", 200, "none", u, "users") EXCEPT
                            !.accounts = UserQueryset(u)]
          /\ Finish(p)
          /\ UNCHANGED <<users, vouchers, usages, now>>

\* UserCreateSerializer(data).save() for the email of the newcomer with the
\* payload's role (Keep when the payload has none): role is a writable field
\* of the serializer, create_user takes it from the validated data and falls
\* back to USER when it is absent; is_staff keeps its default
UserCreateSerializer_create(role) ==
  [users EXCEPT ![Newcomer] =
     [role |-> IF role = Keep THEN "USER" ELSE role, is_staff |-> FALSE]]

\* POST /users/ (UserViewSet.create, AllowAny) and POST /auth/register/
\* (register_view, AllowAny), told apart by via: both validate the payload
\* with UserCreateSerializer (400 when the email is taken) and save it
Register(p, via, role) ==
  /\ pc[p] = "idle"
  /\ IF users[Newcomer] # NoUser
       THEN Deny(p, "register", 400, "invalid", AnonymousUser, via)
     ELSE /\ users' = UserCreateSerializer_create(role)
          /\ response' = RespondTo("register", 201, "none", AnonymousUser, via)
          /\ Finish(p)
          /\ UNCHANGED <<vouchers, usages, now>>

\* DELETE /users/{pk}/: IsAdminUser, get_object, and instance.delete(): the
\* usage rows of the user go with it (on_delete=CASCADE) and created_by of
\* the vouchers the user created becomes null (on_delete=SET_NULL)
DestroyUser(p, u, a) ==
  /\ pc[p] = "idle"
  /\ IF ~is_authenticated(u)
       THEN Deny(p, "destroy_user", 401, "unauthenticated", u, "users")
     ELSE IF ~is_staff(u)
       THEN Deny(p, "destroy_user", 403, "forbidden", u, "users")
     ELSE IF a \notin UserQueryset(u)
       THEN Deny(p, "destroy_user", 404, "not_found", u, "users")
     ELSE /\ users' = [users EXCEPT ![a] = NoUser]
          /\ usages' = WithoutUser(a)
          /\ vouchers' = [k \in VoucherIds |->
               IF vouchers[k] # NoVoucher /\ vouchers[k].created_by = a
                 THEN [vouchers[k] EXCEPT !.created_by = Null] ELSE vouchers[k]]
          /\ response' = RespondTo("destroy_user", 204, "none", u, "users")
          /\ Finish(p)
          /\ UNCHANGED now

\* ---------------------------------------------------------------- Next
\* a handler of P free to take the next request
SomeIdle(P) == \E p \in P : pc[p] = "idle"

Idle(P) == CHOOSE p \in P : pc[p] = "idle"

\* requests that only read, with the codes C and the amounts A: any free
\* handler of P answers them in one query
Reads(P, U, C, A) ==
  \/ \E u \in U, k \in VoucherIds : SomeIdle(P) /\ Retrieve(Idle(P), u, k)
  \/ \E c \in C, pa \in A, sa \in A : SomeIdle(P) /\ Validate(Idle(P), c, pa, sa)

\* voucher create and update by the users U, with the codes C, the dates T
\* and the subclass fields K on create and the payloads UP on update
Writes(P, U, C, T, UP, K) ==
  \/ \E u \in U, c \in C, vf \in T, vu \in T, tm \in K :
       SomeIdle(P) /\ CreateVoucher(Idle(P), u, c, vf, vu, tm)
  \/ \E p \in P, u \in U, k \in VoucherIds : UpdateLoad(p, u, k)
  \/ \E p \in P, d \in UP : UpdateSave(p, d)

\* creation query by query through the serializer of the payload's type, by
\* the users U with the codes C, valid_from of TF, valid_until of TU, the
\* statuses ST, the limits L and the subclass fields K
Creates(P, U, C, TF, TU, ST, L, K) ==
  \/ \E u \in U, c \in C, vf \in TF, vu \in TU, st \in ST, lim \in L, tm \in K :
       SomeIdle(P) /\ CreateValidated(Idle(P), u, c, vf, vu, st, lim, tm)
  \/ \E p \in P : InsertVoucher(p)

\* VoucherCreateSerializer with the codes C, the amounts A and the dates T
UnifiedCreates(P, C, A, T) ==
  \E c \in C, ty \in DiscountTypes, a \in A, vf \in T, vu \in T, vi \in BOOLEAN :
    SomeIdle(P) /\ UnifiedValidated(Idle(P), c, ty, a, vf, vu, vi)

\* PUT/PATCH by the users U with the payloads UP
Updates(P, U, UP) ==
  \/ \E p \in P, u \in U, k \in VoucherIds : UpdateLoad(p, u, k)
  \/ \E p \in P, d \in UP : UpdateSave(p, d)

\* the steps of use_voucher requests of the users U on the handlers P
Redeems(P, U) ==
  \/ \E p \in P, u \in U, k \in VoucherIds : UseVoucher(p, u, k)
  \/ \E p \in P : ValidateVoucherCode(p)
  \/ \E p \in P : CreateLoad(p)
  \/ \E p \in P : CreateUsage(p)
  \/ \E p \in P : IncrementUsage(p)

\* update payloads (PUT and PATCH) with the codes C and the dates T
UpdatePayloads(C, T) ==
  [code : C \cup {Keep}, status : VoucherStatus \cup {Keep},
   valid_from : T \cup {KeepInt}, valid_until : T \cup {KeepInt},
   usage_limit : Limits \cup {KeepInt}]

NoPatch ==
  [code |-> Keep, status |-> Keep, valid_from |-> KeepInt, valid_until |-> KeepInt,
   usage_limit |-> KeepInt]

\* PATCH payloads that carry at most one field
Patches(C, T) ==
  {NoPatch}
    \cup {[NoPatch EXCEPT !.code = c] : c \in C}
    \cup {[NoPatch EXCEPT !.status = st] : st \in VoucherStatus}
    \cup {[NoPatch EXCEPT !.valid_from = t] : t \in T}
    \cup {[NoPatch EXCEPT !.valid_until = t] : t \in T}
    \cup {[NoPatch EXCEPT !.usage_limit = n] : n \in Limits}

\* the accounts of U whose credentials authenticate (JWT authentication
\* answers 401 for the others before any handler runs)
Authenticated(U) == {u \in U : is_authenticated(u)}

\* list and retrieve at the endpoints E by the requesters U
Lists(P, U, E) ==
  \/ \E u \in U, e \in E : SomeIdle(P) /\ ListVouchers(Idle(P), u, e)
  \/ \E u \in U, e \in E, k \in VoucherIds :
       SomeIdle(P) /\ RetrieveVoucher(Idle(P), u, e, k)

\* create and update at the type-specific endpoints E by the users U, with
\* the codes C, the statuses ST, the subclass fields K and the payloads UP
TypedWrites(P, U, E, C, ST, K, UP) ==
  \/ \E u \in U, e \in E, c \in C, st \in ST, tm \in K :
       SomeIdle(P) /\ TypedCreateValidated(Idle(P), u, e, c, 0, MaxTime, st, None, tm)
  \/ \E p \in P, u \in U, e \in E, k \in VoucherIds : TypedUpdateLoad(p, u, e, k)
  \/ \E p \in P, d \in UP : TypedUpdateSave(p, d)

\* voucher deletes at the endpoints E by the requesters U
Destroys(P, U, E) ==
  \E u \in U, e \in E, k \in VoucherIds :
    SomeIdle(P) /\ DestroyVoucher(Idle(P), u, e, k)

\* registrations with the roles R in the payload, through either endpoint
Registers(P, R) ==
  \E via \in {"users", "auth/register"}, role \in R :
    SomeIdle(P) /\ Register(Idle(P), via, role)

\* user lists by the requesters U, and deletes of the accounts A by them
UserLists(P, U) == \E u \in U : SomeIdle(P) /\ ListUsers(Idle(P), u)

UserDestroys(P, U, A) ==
  \E u \in U, a \in A : SomeIdle(P) /\ DestroyUser(Idle(P), u, a)

\* the whole system, every payload
FullNext ==
  \/ Tick
  \/ Reads(Procs, Users, RawCodes, Cents)
  \/ Writes(Procs, Users, RawCodes, Times, UpdatePayloads(RawCodes, Times),
            {NoTerms} \cup PercentageTerms \cup FixedTerms \cup FreeShippingTerms)
  \/ Redeems(Procs, Users)
  \/ \E p \in Procs : SaveFails(p)
  \/ Lists(Procs, Accounts \cup {AnonymousUser}, Endpoints)
  \/ TypedWrites(Procs, Authenticated(Accounts), TypedEndpoints, RawCodes, VoucherStatus,
                 PercentageTerms \cup FixedTerms \cup FreeShippingTerms,
                 UpdatePayloads(RawCodes, Times))
  \/ Destroys(Procs, Accounts \cup {AnonymousUser}, Endpoints)
  \/ Registers(Procs, UserRole \cup {Keep})
  \/ UserLists(Procs, Accounts \cup {AnonymousUser})
  \/ UserDestroys(Procs, Accounts \cup {AnonymousUser}, Accounts)

FullSpec == Init /\ [][FullNext]_vars

\* concurrent redemptions, status and usage_limit edits and failing saves on
\* one voucher code whose window is open throughout
Next ==
  \/ Writes(Procs, {"admin", "user"}, {"a"}, {0, MaxTime}, Patches({}, {}), {NoTerms})
  \/ Redeems(Procs, {"admin", "user"})
  \/ \E p \in Procs : SaveFails(p)

Spec == Init /\ [][Next]_vars

\* concurrent use_voucher requests alone, after the voucher's creation
RaceNext ==
  \/ \E vf \in {0}, vu \in {MaxTime} :
       SomeIdle(Procs) /\ CreateVoucher(Idle(Procs), "admin", "a", vf, vu, NoTerms)
  \/ Redeems(Procs, {"admin", "user"})

RaceSpec == Init /\ [][RaceNext]_vars

\* one request at a time: a single handler serves every request to its end
SeqNext ==
  \/ Tick
  \/ Reads({1}, {"admin"}, {"a", "b"}, {0})
  \/ Writes({1}, {"admin"}, {"A"}, Times, Patches({}, Times), {NoTerms})
  \/ Redeems({1}, {"admin"})

SeqSpec == Init /\ [][SeqNext]_vars

\* codes and dates: concurrent creations through either serializer, of
\* free-shipping and of fixed-amount vouchers, updates of the code and of the dates, and
\* validate requests with every spelling of the codes
CodeNext ==
  \/ Creates(Procs, {"admin"}, RawCodes, {KeepInt, 0}, {0, MaxTime}, {"ACTIVE"}, {None},
             {[NoTerms EXCEPT !.voucher_type = "freeshippingvoucher"]})
  \/ UnifiedCreates(Procs, RawCodes, {1}, {None, 0, MaxTime})
  \/ Updates(Procs, {"admin"},
             {d \in Patches(RawCodes, {0, MaxTime}) :
                d.status = Keep /\ d.usage_limit = KeepInt})
  \/ \E c \in RawCodes : SomeIdle(Procs) /\ Validate(Idle(Procs), c, 0, 0)

CodeSpec == Init /\ [][CodeNext]_vars

\* quotes: one handler creates a voucher of any of the three subclasses,
\* validates it with any amounts, redeems it, and calculates discounts on the
\* instance a redemption holds
QuoteNext ==
  \/ Reads({1}, {"admin"}, {"a"}, Cents)
  \/ Writes({1}, {"admin"}, {"A"}, {0, MaxTime}, {NoPatch},
            {[NoTerms EXCEPT !.voucher_type = "percentagediscountvoucher",
                             !.discount_percentage = 5000, !.min_purchase_amount = 1],
             [NoTerms EXCEPT !.voucher_type = "fixedamountvoucher",
                             !.discount_amount = 2],
             [NoTerms EXCEPT !.voucher_type = "freeshippingvoucher",
                             !.max_shipping_amount = 1]})
  \/ Redeems({1}, {"admin"})
  \/ Calculates({1}, Cents)

QuoteSpec == Init /\ [][QuoteNext]_vars

\* calculate_discount as a function: handler 1 holds any instance of the
\* three subclasses and is called with any amounts
CalcInit ==
  /\ vouchers = [k \in VoucherIds |-> NoVoucher]
  /\ usages = <<>>
  /\ now = 0
  /\ pc = [p \in Procs |-> "idle"]
  /\ req = [p \in Procs |-> NoRequest]
  /\ \E v \in Instances(PercentageTerms \cup FixedTerms \cup FreeShippingTerms) :
       inst = [p \in Procs |-> IF p = 1 THEN v ELSE NoInstance]
  /\ response = NoResponse
  /\ users = FixtureUsers

CalcNext == Calculates({1}, Cents)

CalcSpec == CalcInit /\ [][CalcNext]_vars

\* roles: one handler serves, one request at a time, registrations with and
\* without a role, user lists, and voucher creates, updates, deletes, lists
\* and retrieves at the generic and at the fixed-amount endpoint by the
\* admin, the regular user and the newcomer
AccessTerms ==
  {[NoTerms EXCEPT !.voucher_type = "fixedamountvoucher", !.discount_amount = 2]}

AccessEndpoints == {"vouchers", "fixed-amount-vouchers"}

AccessPatches == {NoPatch, [NoPatch EXCEPT !.status = "CANCELLED"]}

AccessNext ==
  \/ Registers({1}, {Keep, "ADMIN"})
  \/ UserLists({1}, {"admin", "user", AnonymousUser})
  \/ Creates({1}, Authenticated({"admin", "user", Newcomer}), {"a", "b"}, {0}, {MaxTime},
             {"ACTIVE", "CANCELLED"}, {None}, AccessTerms)
  \/ Updates({1}, Authenticated({"admin", "user", Newcomer}), AccessPatches)
  \/ TypedWrites({1}, Authenticated({"admin", "user"}), AccessEndpoints \ {"vouchers"},
                 {"a", "b"}, {"ACTIVE"}, AccessTerms, AccessPatches)
  \/ Destroys({1}, {"admin", "manager", "user", Newcomer}, AccessEndpoints)
  \/ Lists({1}, {"admin", "user", AnonymousUser}, AccessEndpoints)

AccessSpec == Init /\ [][AccessNext]_vars

\* the ledger: two stored vouchers, one created by the manager and one by the
\* admin, with concurrent redemptions by the regular user, and voucher deletes
\* and deletes of the manager and of the regular user by the admin
LedgerVoucher(c, a) ==
  [code |-> c, status |-> "ACTIVE", valid_from |-> 0, valid_until |-> MaxTime,
   usage_limit |-> None, usage_count |-> 0, created_by |-> a] @@ NoTerms

LedgerInit ==
  /\ vouchers = [k \in VoucherIds |->
                   IF k = 1 THEN LedgerVoucher("A", "manager")
                   ELSE IF k = 2 THEN LedgerVoucher("B", "admin") ELSE NoVoucher]
  /\ usages = <<>>
  /\ now = 0
  /\ pc = [p \in Procs |-> "idle"]
  /\ req = [p \in Procs |-> NoRequest]
  /\ inst = [p \in Procs |-> NoInstance]
  /\ response = NoResponse
  /\ users = FixtureUsers

LedgerNext ==
  \/ Redeems(Procs, Authenticated({"user"}))
  \/ Destroys(Procs, {"admin"}, {"vouchers"})
  \/ UserDestroys(Procs, {"admin"}, {"manager", "user"})

LedgerSpec == LedgerInit /\ [][LedgerNext]_vars

\* ---------------------------------------------------------------- claims
AllIdle == \A p \in Procs : pc[p] = "idle"

\* the usage rows recorded for voucher k
RowsOf(k) == {i \in 1..Len(usages) : usages[i].voucher = k}

\* the step is a validity check (validate or redeem path) of the stored row v
\* that answers with HTTP status h; the amounts of a validate request are
\* those its response shows
CheckOf(v, h) ==
  \/ \E c \in RawCodes, p \in Procs :
       /\ Validate(p, c, response'.purchase_amount, response'.shipping_amount)
       /\ v \in {vouchers[k] : k \in PksByCode(upper(c))}
       /\ response'.http = h
  \/ \E p \in Procs :
       /\ ValidateVoucherCode(p)
       /\ v \in {vouchers[k] : k \in PksByCode(upper(req[p].code))}
       /\ IF h = 200 THEN pc'[p] = "validated" ELSE response'.http = h /\ pc'[p] = "idle"

\* C1: for a voucher with usage_limit = N, at most N usage rows are ever
\* recorded, under every interleaving of concurrent use_voucher requests.
C1_AtMostLimitRedemptions ==
  \A k \in VoucherIds :
    (vouchers[k] # NoVoucher /\ vouchers[k].usage_limit # None)
      => Cardinality(RowsOf(k)) <= vouchers[k].usage_limit

\* C2: after any sequence of voucher create, voucher update and sequential
\* redeem operations, a voucher whose usage_limit is set has
\* usage_count <= usage_limit.
C2_CountWithinLimit ==
  \A k \in VoucherIds :
    (vouchers[k] # NoVoucher /\ vouchers[k].usage_limit # None)
      => vouchers[k].usage_count <= vouchers[k].usage_limit

\* C3: whenever no request is in flight, the usage rows of a voucher and its
\* usage_count match: a redemption leaves both of its writes or neither.
C3_RowAndCountAsUnit ==
  AllIdle =>
    \A k \in VoucherIds :
      vouchers[k] # NoVoucher => Cardinality(RowsOf(k)) = vouchers[k].usage_count

\* C4: increment_usage raises the instance's usage_count by exactly 1 and saves
\* status USED whenever usage_limit is set (not None) and the new usage_count
\* has reached it, and the status it loaded otherwise.
C4_IncrementUsage ==
  [][\A p \in Procs :
       IncrementUsage(p) =>
         LET v == inst[p]
             w == vouchers'[req[p].pk]
         IN /\ w.usage_count = v.usage_count + 1
            /\ w.status = IF v.usage_limit # None /\ v.usage_count + 1 >= v.usage_limit
                          THEN "USED" ELSE v.status]_vars

StatedValid(v, t) ==
  /\ v.status = "ACTIVE"
  /\ v.valid_from <= t /\ t <= v.valid_until
  /\ (v.usage_limit = None \/ v.usage_count < v.usage_limit)

\* the step is a retrieve of row k that user u may address
RetrieveOf(u, k) == Visible(u, k) /\ \E p \in Procs : Retrieve(p, u, k)

\* C6: is_valid is true exactly when status is ACTIVE, valid_from <= now <=
\* valid_until and usage_limit is None or usage_count < usage_limit: the
\* is_valid field of a retrieved voucher has that value, and the validate and
\* redeem checks accept a voucher exactly when it holds.
C6_IsValidExactly ==
  [][/\ \A u \in Users, k \in VoucherIds :
          RetrieveOf(u, k) => (response'.is_valid <=> StatedValid(vouchers[k], now))
     /\ \A k \in VoucherIds :
          vouchers[k] # NoVoucher =>
            /\ CheckOf(vouchers[k], 200) => StatedValid(vouchers[k], now)
            /\ CheckOf(vouchers[k], 400) => ~StatedValid(vouchers[k], now)]_vars

\* a used voucher without usage_limit was retrieved and is valid
C6_Witness ==
  /\ response.op = "retrieve" /\ response.http = 200 /\ response.is_valid
  /\ \E k \in VoucherIds :
       /\ vouchers[k] # NoVoucher
       /\ vouchers[k].usage_limit = None
       /\ vouchers[k].usage_count > 0
       /\ now = vouchers[k].valid_until

\* C7: is_expired equals (now > valid_until) whatever the status and the usage.
C7_IsExpiredIgnoresStatus ==
  [][\A u \in Users, k \in VoucherIds :
       RetrieveOf(u, k) => (response'.is_expired <=> now > vouchers[k].valid_until)]_vars

\* a CANCELLED voucher past its window was retrieved: not valid, and expired
C7_Witness ==
  /\ response.op = "retrieve" /\ response.http = 200
  /\ response.is_expired /\ ~response.is_valid
  /\ \E k \in VoucherIds :
       /\ vouchers[k] # NoVoucher
       /\ vouchers[k].status = "CANCELLED"
       /\ now > vouchers[k].valid_until

\* C8: a voucher that fails on its time window (ACTIVE, now outside
\* valid_from..valid_until) is reported for the window and never for its usage
\* limit, since the time window is decided before the usage limit.
C8_WindowBeforeUsageLimit ==
  [][\A k \in VoucherIds :
       LET v == vouchers[k]
       IN (/\ v # NoVoucher
           /\ v.status = "ACTIVE"
           /\ (now < v.valid_from \/ now > v.valid_until)
           /\ CheckOf(v, 400))
          => response'.reason # "usage_limit"]_vars

\* C9: a rejected validity check reports one of the four causes, and the cause
\* it reports holds of the voucher; none falls through to the generic message.
C9_SpecificCause ==
  [][\A k \in VoucherIds :
       LET v == vouchers[k]
       IN (v # NoVoucher /\ CheckOf(v, 400)) =>
            \/ response'.reason = "inactive" /\ v.status # "ACTIVE"
            \/ response'.reason = "not_yet_valid" /\ now < v.valid_from
            \/ response'.reason = "expired" /\ now > v.valid_until
            \/ /\ response'.reason = "usage_limit"
               /\ v.usage_limit # None /\ v.usage_count >= v.usage_limit]_vars

\* C10: a use_voucher request whose voucher is not valid when
\* validate_voucher_code checks it is rejected (400) there, and the rejection
\* leaves the vouchers and the usage ledger as they were.
C10_InvalidRedeemRejected ==
  [][\A p \in Procs, k \in VoucherIds :
       (/\ pc[p] = "got" /\ pc'[p] # "got"
        /\ k \in PksByCode(upper(req[p].code))
        /\ ~StatedValid(vouchers[k], now))
       => /\ pc'[p] = "idle"
          /\ response'.op = "use_voucher" /\ response'.http = 400
          /\ response'.reason # "none"
          /\ vouchers' = vouchers /\ usages' = usages]_vars

\* a redemption of a voucher that an earlier redemption used up was rejected
\* with 400, and the ledger still holds exactly the counted rows
C10_Witness ==
  /\ response.op = "use_voucher" /\ response.http = 400
  /\ response.reason = "inactive"
  /\ AllIdle
  /\ \E k \in VoucherIds :
       /\ vouchers[k] # NoVoucher
       /\ vouchers[k].status = "USED"
       /\ Truthy(vouchers[k].usage_limit)
       /\ vouchers[k].usage_count = vouchers[k].usage_limit
       /\ Cardinality(RowsOf(k)) = vouchers[k].usage_count

\* ---------------------------------------------------------------- discounts
\* the response is a discount calculated for a voucher of type ty
DiscountOf(ty) ==
  /\ response.op = "calculate_discount"
  /\ response.voucher.voucher_type = ty

\* the whole cents nearest to the fraction n / d of a cent: one, or at a tie two
Nearest(n, d) ==
  {r \in 0..(n \div d + 1) : 2 * (r * d - n) <= d /\ 2 * (n - r * d) <= d}

RoundHalfUp(n, d) == CHOOSE r \in Nearest(n, d) : \A q \in Nearest(n, d) : q <= r

RoundHalfEven(n, d) ==
  CHOOSE r \in Nearest(n, d) : Cardinality(Nearest(n, d)) = 1 \/ r % 2 = 0

\* the percentage discount as stated: nothing under the minimum purchase,
\* else the rounded share of the purchase, limited to the cap when one is set
StatedPercentage(v, pa, rounded) ==
  IF pa < v.min_purchase_amount THEN 0
  ELSE IF v.max_discount_amount # None THEN Min(rounded, v.max_discount_amount)
  ELSE rounded

\* C16 (as stated): calculate_discount of a percentage voucher is 0 under the
\* minimum purchase, else purchase * percentage / 100 rounded half-up to two
\* decimals, limited to max_discount_amount when a cap is set.
C16_PercentageRoundsHalfUp ==
  DiscountOf("percentagediscountvoucher") =>
    response.calculated_discount =
      StatedPercentage(response.voucher, response.purchase_amount,
        RoundHalfUp(response.purchase_amount * response.voucher.discount_percentage,
                    PercentScale))

\* C16 (amended): the same, with the share rounded to the nearest cent and a
\* tie rounded to the even cent (ROUND_HALF_EVEN).
C16_PercentageRoundsHalfEven ==
  DiscountOf("percentagediscountvoucher") =>
    response.calculated_discount =
      StatedPercentage(response.voucher, response.purchase_amount,
        RoundHalfEven(response.purchase_amount * response.voucher.discount_percentage,
                      PercentScale))

\* a discount at a tie was calculated: the share lies half-way between two
\* cents and the discount is the even one, below the cap
C16_Witness ==
  /\ DiscountOf("percentagediscountvoucher")
  /\ response.purchase_amount >= response.voucher.min_purchase_amount
  /\ response.voucher.max_discount_amount = None
  /\ 2 * ((response.purchase_amount * response.voucher.discount_percentage)
            % PercentScale) = PercentScale
  /\ response.calculated_discount % 2 = 0
  /\ response.calculated_discount > 0

\* C17: for 0 < discount_percentage <= 100 and a non-negative purchase, the
\* percentage discount is non-negative, at most the purchase, and at most
\* max_discount_amount when a cap is set.
C17_PercentageBounded ==
  DiscountOf("percentagediscountvoucher") =>
    /\ response.calculated_discount >= 0
    /\ response.calculated_discount <= response.purchase_amount
    /\ (response.voucher.max_discount_amount # None =>
          response.calculated_discount <= response.voucher.max_discount_amount)

\* a discount was cut down to its cap: the uncapped share is larger
C17_Witness ==
  /\ DiscountOf("percentagediscountvoucher")
  /\ response.voucher.max_discount_amount # None
  /\ response.purchase_amount >= response.voucher.min_purchase_amount
  /\ response.purchase_amount * response.voucher.discount_percentage
       > response.voucher.max_discount_amount * PercentScale
  /\ response.calculated_discount = response.voucher.max_discount_amount

\* C18: calculate_discount of a fixed-amount voucher is 0 under the minimum
\* purchase and min(discount_amount, purchase) from the minimum purchase on
\* (the minimum itself is eligible), so it never exceeds the purchase.
C18_FixedAmount ==
  DiscountOf("fixedamountvoucher") =>
    /\ (response.purchase_amount < response.voucher.min_purchase_amount =>
          response.calculated_discount = 0)
    /\ (response.purchase_amount >= response.voucher.min_purchase_amount =>
          /\ response.calculated_discount <= response.voucher.discount_amount
          /\ response.calculated_discount <= response.purchase_amount
          /\ response.calculated_discount
               \in {response.voucher.discount_amount, response.purchase_amount})
    /\ response.calculated_discount <= response.purchase_amount

\* a purchase exactly at the minimum and smaller than discount_amount was
\* discounted by the whole purchase
C18_Witness ==
  /\ DiscountOf("fixedamountvoucher")
  /\ response.purchase_amount = response.voucher.min_purchase_amount
  /\ response.purchase_amount > 0
  /\ response.purchase_amount < response.voucher.discount_amount
  /\ response.calculated_discount = response.purchase_amount

\* C19: calculate_discount of a free-shipping voucher is 0 under the minimum
\* purchase, min(shipping, max_shipping_amount) when a cap is set, and the
\* shipping amount when no cap is set.
C19_FreeShipping ==
  DiscountOf("freeshippingvoucher") =>
    IF response.purchase_amount < response.voucher.min_purchase_amount
      THEN response.calculated_discount = 0
    ELSE IF response.voucher.max_shipping_amount # None
      THEN /\ response.calculated_discount <= response.shipping_amount
           /\ response.calculated_discount <= response.voucher.max_shipping_amount
           /\ response.calculated_discount
                \in {response.shipping_amount, response.voucher.max_shipping_amount}
    ELSE response.calculated_discount = response.shipping_amount

\* a shipping amount above the cap was discounted by the cap
C19_Witness ==
  /\ DiscountOf("freeshippingvoucher")
  /\ response.purchase_amount >= response.voucher.min_purchase_amount
  /\ response.voucher.max_shipping_amount # None
  /\ response.shipping_amount > response.voucher.max_shipping_amount
  /\ response.calculated_discount = response.voucher.max_shipping_amount

\* ---------------------------------------------------------------- codes
\* a code without its case: the spellings of one code share it
CaseFolded(c) == IF c \in {"a", "A"} THEN "A" ELSE IF c \in {"b", "B"} THEN "B" ELSE c

\* the stored vouchers whose code is a spelling of c
SpelledLike(c) == {k \in Stored : CaseFolded(vouchers[k].code) = CaseFolded(c)}

\* C11: a validate or redeem whose code resolves to no voucher is answered
\* with 404 (not found), not with the 400 of a voucher that is not eligible.
C11_UnknownCodeIs404 ==
  (response.op \in {"validate", "use_voucher"} /\ response.reason = "not_found")
    => response.http = 404

C13_CodesUpperAndUnique ==
  /\ \A k \in Stored : vouchers[k].code = CaseFolded(vouchers[k].code)
  /\ \A j, k \in Stored : vouchers[j].code = vouchers[k].code => j = k

\* the table refused a write of a stored code while holding two vouchers
C13_Witness ==
  /\ response.http = 500 /\ response.reason = "integrity"
  /\ Cardinality(Stored) = NumVouchers
  /\ AllIdle

\* C14: a create request whose upper-cased code is the code of an existing
\* voucher of any type is rejected by validation (400) and creates nothing,
\* through VoucherSerializer and through VoucherCreateSerializer.
C14_DuplicateCodeRejected ==
  [][\A p \in Procs, c \in RawCodes :
       (/\ pc[p] = "idle" /\ pc'[p] # "upd_got" /\ pc'[p] # "got"
        /\ SpelledLike(c) # {}
        /\ \/ \E u \in Users, vf \in Times \cup {KeepInt}, vu \in Times,
                 st \in VoucherStatus, lim \in Limits,
                 tm \in {NoTerms, [NoTerms EXCEPT !.voucher_type = "freeshippingvoucher"]} :
                 CreateValidated(p, u, c, vf, vu, st, lim, tm)
           \/ \E ty \in DiscountTypes, a \in {0, 1},
                 vf \in Times \cup {None}, vu \in Times \cup {None}, vi \in BOOLEAN :
                 UnifiedValidated(p, c, ty, a, vf, vu, vi))
       => /\ pc'[p] = "idle"
          /\ response'.op = "create" /\ response'.http = 400
          /\ vouchers' = vouchers]_vars

\* C15: every voucher accepted by creation or update validation has
\* valid_until strictly after valid_from.
C15_UntilAfterFrom ==
  \A k \in Stored : vouchers[k].valid_from < vouchers[k].valid_until

\* ---------------------------------------------------------------- purity
\* the step is a validate request with code c, whose amounts are those its
\* response shows
ValidateOf(c) ==
  \E p \in Procs :
    Validate(p, c, response'.purchase_amount, response'.shipping_amount)

C24_UsageCountMonotone ==
  [][\A k \in VoucherIds :
       /\ (vouchers[k] = NoVoucher /\ vouchers'[k] # NoVoucher)
            => vouchers'[k].usage_count = 0
       /\ (vouchers[k] # NoVoucher /\ vouchers'[k] # NoVoucher)
            => vouchers'[k].usage_count >= vouchers[k].usage_count
       /\ (\E p \in Procs : pc[p] = "upd_got" /\ pc'[p] = "idle" /\ req[p].pk = k)
            => vouchers'[k].usage_count = vouchers[k].usage_count]_vars

\* C28: once no redemption of a voucher is in flight, its usage_count equals
\* the number of usage rows recorded for it: concurrent redemptions lose no
\* increment.
C28_NoLostIncrement ==
  \A k \in VoucherIds :
    (vouchers[k] # NoVoucher /\ \A p \in Procs : pc[p] = "idle" \/ req[p].pk # k)
      => vouchers[k].usage_count = Cardinality(RowsOf(k))

\* C29: the save of increment_usage never puts status ACTIVE back on a row
\* that an update has set to CANCELLED or EXPIRED since the redemption loaded
\* it.
C29_RedeemKeepsStatusEdit ==
  [][\A p \in Procs :
       (IncrementUsage(p) /\ vouchers[req[p].pk].status \in {"CANCELLED", "EXPIRED"})
         => vouchers'[req[p].pk].status # "ACTIVE"]_vars

\* an authenticated requester who is neither admin nor manager
NotPrivileged(u) == is_authenticated(u) /\ ~is_admin(u) /\ ~is_manager(u)

\* C21: a voucher create or update request of an authenticated requester who
\* is neither admin nor manager, once its payload is valid, is answered with
\* 403 and leaves the stored vouchers as they are, at the generic and at the
\* type-specific endpoints.
C21_WritesNeedRole ==
  [][/\ \A p \in Procs :
          (/\ pc[p] \in {"upd_got", "tupd_got"}
           /\ pc'[p] = "idle"
           /\ NotPrivileged(req[p].user))
            => (response'.http = 403 /\ vouchers' = vouchers)
     /\ \A u \in Accounts, c \in RawCodes :
          (/\ NotPrivileged(u)
           /\ CodeFree(c)
           /\ \E p \in Procs, st \in VoucherStatus, tm \in AccessTerms :
                CreateValidated(p, u, c, 0, MaxTime, st, None, tm))
            => (response'.http = 403 /\ vouchers' = vouchers)]_vars

\* C22: a delete request for a voucher the requester can address removes the
\* voucher exactly when the requester has the ADMIN role; any other
\* authenticated requester gets 403 and the voucher remains.
C22_DestroyIsAdminOnly ==
  [][\A u \in Accounts, e \in Endpoints, k \in VoucherIds :
       (/\ is_authenticated(u)
        /\ InQueryset(e, u, k)
        /\ \E p \in Procs : DestroyVoucher(p, u, e, k))
         => IF is_admin(u)
              THEN response'.http = 204 /\ vouchers'[k] = NoVoucher
              ELSE response'.http = 403 /\ vouchers'[k] = vouchers[k]]_vars

\* every usage row references a stored voucher and a stored user, and
\* created_by of every stored voucher is null or a stored user
NoDanglingReference ==
  /\ \A i \in 1..Len(usages) :
       vouchers[usages[i].voucher] # NoVoucher /\ users[usages[i].user] # NoUser
  /\ \A k \in VoucherIds :
       vouchers[k] # NoVoucher =>
         (vouchers[k].created_by = Null \/ users[vouchers[k].created_by] # NoUser)

\* C23: after every step of redemptions, voucher deletes and user deletes no
\* reference dangles, and the delete of a user keeps every voucher and sets
\* created_by of the vouchers that user created to null.
C23_NoDanglingReference ==
  [][/\ NoDanglingReference'
     /\ \A a \in Accounts :
          (users[a] # NoUser /\ users'[a] = NoUser) =>
            \A k \in VoucherIds :
              /\ (vouchers[k] # NoVoucher) = (vouchers'[k] # NoVoucher)
              /\ (vouchers[k] # NoVoucher /\ vouchers[k].created_by = a)
                   => vouchers'[k].created_by = Null]_vars

\* both deletes have happened: voucher 2 is deleted, and so are the manager,
\* who created voucher 1, and the regular user, who redeemed it; voucher 1 is
\* kept with created_by null, and its ledger row went with the user
C23_Witness ==
  /\ vouchers[2] = NoVoucher
  /\ vouchers[1] # NoVoucher /\ vouchers[1].created_by = Null
  /\ vouchers[1].usage_count >= 1
  /\ users["manager"] = NoUser /\ users["user"] = NoUser
  /\ usages = <<>>
  /\ response.op = "destroy_user" /\ response.http = 204

C26_RegularUsersSeeOnlyActive ==
  [][\A u \in Accounts, e \in Endpoints :
       NotPrivileged(u) =>
         /\ (\E p \in Procs : ListVouchers(p, u, e))
              => \A k \in response'.results : vouchers[k].status = "ACTIVE"
         /\ \A k \in VoucherIds :
              (/\ vouchers[k] # NoVoucher
               /\ vouchers[k].status # "ACTIVE"
               /\ \E p \in Procs : RetrieveVoucher(p, u, e, k))
                => response'.http = 404]_vars

\* C27: a list-users request of an authenticated requester without the admin
\* role is answered 403, and one without credentials 401.
C27_ListUsersAdminOnly ==
  [][\A u \in Accounts \cup {AnonymousUser} :
       (\E p \in Procs : ListUsers(p, u)) =>
         /\ ~is_authenticated(u) => response'.http = 401
         /\ (is_authenticated(u) /\ ~is_admin(u)) => response'.http = 403]_vars

\* C30: the account a registration creates has the role USER, whatever role
\* the payload carries, and so passes neither the admin nor the manager check.
C30_RegisteredRoleIsUser ==
  users[Newcomer] # NoUser =>
    /\ users[Newcomer].role = "USER"
    /\ ~is_admin(Newcomer) /\ ~is_manager(Newcomer)
====
